---- MODULE Spec2Model ----
(***************************************************************************)
(* Model of the equant backtest path:                                      *)
(*   POST /api/v1/backtest  (backend/app/api/v1/backtest.py)               *)
(*     -> finrl_mock.run_backtest (backend/app/services/finrl_mock.py)     *)
(*          -> data_fetcher.fetch_market_data                              *)
(*                                                                         *)
(* Numbers.  Python floats are modelled as exact rationals <<n, d>> with   *)
(* d > 0, kept in lowest terms.  Prices are positive integers, a close     *)
(* that pandas.to_numeric(errors="coerce") turns into NaN is the value     *)
(* NaN below.  take_profit_pct and stop_loss_pct are held in percent       *)
(* (10 stands for 0.10).  round(x, 2) is modelled as rounding to the       *)
(* nearest hundredth, ties to even, and its result is held in hundredths   *)
(* (an equity of 1234.56 is the integer 123456).  Percentages of the       *)
(* metrics are held in hundredths of a percent.  sharpe_ratio (a square    *)
(* root and a standard deviation) is left out of the metrics.              *)
(*                                                                         *)
(* buys and ledger are history variables: the code keeps neither the       *)
(* number of buys nor the shares of a closed trade.                        *)
(*                                                                         *)
(* In Spec the request starts in the body of the handler: the Premium      *)
(* dependency has returned a user and pydantic has validated the body.     *)
(* SpecTwice calls the handler a second time, SpecInd and SpecMa call the  *)
(* indicator engine (services/qlib_wrapper.py), and SpecAuth runs the      *)
(* dependencies of the handler (core/deps.py) for concurrent requests.     *)
(***************************************************************************)
EXTENDS Integers, Sequences, FiniteSets, TLC

VARIABLES
    pc,             \* position in the handler / in run_backtest
    body,           \* the validated BacktestRequest
    http_status,    \* 0 while the request is in progress, then the status
    exc,            \* exception in flight out of finrl_mock.run_backtest
    fetches,        \* number of calls of fetch_market_data so far
    ohlcv,          \* market["ohlcv"]: the closes of the fetched bars
    df,             \* the data frame after line 63: rows [close, ma_s, ma_l]
    i,              \* index of the next row of df the loop visits
    equity,         \* `equity`: the cash balance (rational)
    position,       \* `position`: number of shares held (rational)
    entry_price,    \* `entry_price`
    prev_short,     \* `prev_short` (rational)
    prev_long,      \* `prev_long` (rational)
    trade_results,  \* `trade_results`: per-share pnl of each closed trade
    equity_curve,   \* `equity_curve`: the rounded equity of each bar
    metrics,        \* result["metrics"] once computed
    buys,           \* history: number of executed buys
    ledger,         \* history: [shares, entry, exit] of each closed trade
    entry_bar,      \* history: row of df of the latest buy, 0 before it
    run_no,         \* which call of the handler this is (1 or 2)
    first_run,      \* history: what the first call answered
    ind_ohlcv,      \* the list handed to qlib_wrapper.compute_indicators
    ind_window,     \* the window handed to _calc_ma, 0 when it is not called
    ind_pc,         \* position of the call of compute_indicators
    ind,            \* the dict compute_indicators returned
    ind_caught,     \* history: the exception its handler caught
    DEBUG,          \* settings.DEBUG
    jwks_cache,     \* deps._jwks_cache, shared by all requests
    issuer_jwks,    \* the JWKS the issuer's endpoint serves now
    req,            \* the requests in progress: position and locals
    served,         \* number of requests that have arrived
    first_jwks      \* history: the first non-empty JWKS the cache held

\* the variables of the second call, of the indicator engine and of the
\* dependencies of the handler
ind_vars == <<ind_ohlcv, ind_window, ind_pc, ind, ind_caught>>
auth_vars == <<DEBUG, jwks_cache, issuer_jwks, req, served, first_jwks>>
other_vars == <<run_no, first_run, ind_vars, auth_vars>>

vars == <<pc, body, http_status, exc, fetches, ohlcv, df, i, equity, position,
          entry_price, prev_short, prev_long, trade_results, equity_curve,
          metrics, buys, ledger, entry_bar, other_vars>>

-----------------------------------------------------------------------------
(* Rational arithmetic                                                     *)

Abs(x) == IF x < 0 THEN -x ELSE x

RECURSIVE GCD(_, _)
GCD(a, b) == IF b = 0 THEN a ELSE GCD(b, a % b)

\* n/d in lowest terms, d > 0
Rat(n, d) ==
    LET g == GCD(Abs(n), d) IN <<n \div g, d \div g>>

RInt(k)     == <<k, 1>>
RMulInt(r, k) == Rat(r[1] * k, r[2])
RDivInt(r, k) == Rat(r[1], r[2] * k)
RAdd(r, s)  == Rat(r[1] * s[2] + s[1] * r[2], r[2] * s[2])
RLt(r, s)   == r[1] * s[2] < s[1] * r[2]
RLe(r, s)   == r[1] * s[2] <= s[1] * r[2]
RPos(r)     == r[1] > 0
RZero(r)    == r[1] = 0

\* the integer nearest to n/d (d > 0), ties to the even one
RoundHalfEven(n, d) ==
    LET q == n \div d
        r == n - q * d
    IN  IF 2 * r < d THEN q
        ELSE IF 2 * r > d THEN q + 1
        ELSE IF q % 2 = 0 THEN q ELSE q + 1

\* round(x, 2), in hundredths
Round2(r) == RoundHalfEven(r[1] * 100, r[2])

-----------------------------------------------------------------------------
(* Sequences                                                               *)

RECURSIVE SumRange(_, _, _)
SumRange(s, lo, hi) == IF lo > hi THEN 0 ELSE s[hi] + SumRange(s, lo, hi - 1)

Last(s) == s[Len(s)]

-----------------------------------------------------------------------------
(* Program constants                                                       *)

\* the value a null or unparseable close is coerced to (finrl_mock.py:58)
NaN == 0

\* BacktestRequest field constraints (schemas/backtest.py)
MA_SHORT_GE == 5
MA_SHORT_LE == 100
MA_LONG_GE  == 10
MA_LONG_LE  == 300

\* extra bars run_backtest asks for beyond ma_long (finrl_mock.py:52)
MIN_EXTRA_BARS == 5

HTTP_200 == 200
HTTP_422 == 422
HTTP_500 == 500

-----------------------------------------------------------------------------
(* Bounds of the model                                                     *)

\* bars of the fetched history after the warm-up prefix: at most MaxTail
MaxTail == 6
\* close of the first bar of a fetched history
BasePrice == 9
\* initial_capital of the request
Capital == 100

\* a fetched history has MA_LONG_GE - 1 warm-up bars followed by
\* MaxTail - 1 or MaxTail bars.  Priced histories: the warm-up bars are all
\* equal or rise by one per bar; then come j bars whose close is NaN, then
\* bars that each move the last close by a Delta.  (Where the NaN bars lie
\* is immaterial: line 59 drops them before anything reads the frame.)
\* NaN-led histories: the warm-up bars and j more have a NaN close, the
\* rest close at BasePrice.
WarmBars    == MA_LONG_GE - 1
TailLens    == {MaxTail - 1, MaxTail}
WarmKinds   == {"flat", "rising"}
Deltas      == {-1, 0, 1, 2}
\* take_profit_pct / stop_loss_pct of the request, in percent
PctChoices  == {10, 50}
ShortChoices == {MA_SHORT_GE, MA_LONG_GE}
LongChoices  == {MA_LONG_GE}

WarmUp(kind) ==
    [k \in 1..WarmBars |->
        IF kind = "flat" THEN BasePrice ELSE BasePrice + (k - 1)]

NaNs(j) == [k \in 1..j |-> NaN]

RECURSIVE Walk(_, _)
Walk(last, ds) ==
    IF ds = <<>> THEN <<>>
    ELSE <<last + Head(ds)>> \o Walk(last + Head(ds), Tail(ds))

PricedHistory(kind, j, ds) ==
    WarmUp(kind) \o NaNs(j) \o Walk(WarmUp(kind)[WarmBars], ds)

NaNLedHistory(t, j) ==
    NaNs(WarmBars + j) \o [k \in 1..(t - j) |-> BasePrice]

\* BacktestRequest: the bodies pydantic lets through to the handler
BacktestRequest(b) ==
    /\ b.initial_capital > 0
    /\ b.ma_short >= MA_SHORT_GE /\ b.ma_short <= MA_SHORT_LE
    /\ b.ma_long >= MA_LONG_GE /\ b.ma_long <= MA_LONG_LE
    /\ b.take_profit_pct > 0 /\ b.take_profit_pct < 100
    /\ b.stop_loss_pct > 0 /\ b.stop_loss_pct < 100

Bodies ==
    { b \in [initial_capital : {Capital},
             ma_short : ShortChoices,
             ma_long : LongChoices,
             take_profit_pct : PctChoices,
             stop_loss_pct : PctChoices] : BacktestRequest(b) }

-----------------------------------------------------------------------------
(* finrl_mock.run_backtest: the data frame                                 *)

\* the value of a rolling mean whose window is not full yet
NoValue == <<0, 0>>

\* mutant: the margin of MIN_EXTRA_BARS forgotten
InsufficientData_NoMargin(history, ma_long) == Len(history) < ma_long

\* line 52: the history is too short
InsufficientData(history, ma_long) == Len(history) < ma_long + MIN_EXTRA_BARS

\* lines 58-59: to_numeric(errors="coerce"), then dropna(subset=["close"])
DropNaN(history) == SelectSeq(history, LAMBDA c : c # NaN)

\* lines 61-62: Series.rolling(w).mean()
RollingMean(closes, w) ==
    [k \in 1..Len(closes) |->
        IF k < w THEN NoValue ELSE Rat(SumRange(closes, k - w + 1, k), w)]

\* lines 57-63: the rows run_backtest simulates
Frame(history, ma_short, ma_long) ==
    LET closes == DropNaN(history)
        s == RollingMean(closes, ma_short)
        l == RollingMean(closes, ma_long)
        rows == [k \in 1..Len(closes) |->
                    [close |-> closes[k], ma_s |-> s[k], ma_l |-> l[k]]]
    IN  SelectSeq(rows, LAMBDA r : r.ma_s # NoValue /\ r.ma_l # NoValue)

-----------------------------------------------------------------------------
(* finrl_mock.run_backtest: one bar of the loop                            *)

\* mutant: the previous bar's averages ignored
GoldenCross_NoPrev(ps, pl, cs, cl, pos) ==
    RLt(cl, cs) /\ RZero(pos)

\* mutant: the averages need not cross, touching is enough
GoldenCross_Touching(ps, pl, cs, cl, pos) ==
    RLe(ps, pl) /\ RLe(cl, cs) /\ RZero(pos)

\* mutant: the test that no position is open is missing
GoldenCross_WhileLong(ps, pl, cs, cl, pos) ==
    RLe(ps, pl) /\ RLt(cl, cs)

\* line 81
GoldenCross(ps, pl, cs, cl, pos) ==
    RLe(ps, pl) /\ RLt(cl, cs) /\ RZero(pos)

\* line 87
Change(price, entry) == Rat(price - entry, entry)

\* mutant: the stop-loss clause is missing
ShouldSell_NoStopLoss(ps, pl, cs, cl, change, tp, sl) ==
    \/ (RLe(pl, ps) /\ RLt(cs, cl))
    \/ RLe(Rat(tp, 100), change)

\* mutant: take-profit only when the return exceeds the threshold
ShouldSell_StrictTp(ps, pl, cs, cl, change, tp, sl) ==
    \/ RLe(pl, ps) /\ RLt(cs, cl)
    \/ RLt(Rat(tp, 100), change)
    \/ RLe(change, Rat(-sl, 100))

\* lines 88-92; tp and sl in percent
ShouldSell(ps, pl, cs, cl, change, tp, sl) ==
    \/ RLe(pl, ps) /\ RLt(cs, cl)
    \/ RLe(Rat(tp, 100), change)
    \/ RLe(change, Rat(-sl, 100))

\* line 99
CurrentEquity(pos, price, eq) ==
    IF RPos(pos) THEN RAdd(RMulInt(pos, price), eq) ELSE eq

\* mutant: two independent ifs, the exit first: a bar that closes the
\* position may open a new one
BarStep_SellThenBuy(row, ps, pl, pos, entry, eq, trades, tp, sl) ==
    LET cur_short == row.ma_s
        cur_long  == row.ma_l
        price     == row.close
        sold      == RPos(pos)
                     /\ ShouldSell(ps, pl, cur_short, cur_long,
                                   Change(price, entry), tp, sl)
        pos1      == IF sold THEN RInt(0) ELSE pos
        entry1    == IF sold THEN 0 ELSE entry
        eq1       == IF sold THEN RMulInt(pos, price) ELSE eq
        trades1   == IF sold THEN Append(trades, price - entry) ELSE trades
    IN  IF GoldenCross(ps, pl, cur_short, cur_long, pos1)
        THEN [position |-> RDivInt(eq1, price), entry_price |-> price,
              equity |-> eq1, trade_results |-> trades1, event |-> "buy"]
        ELSE [position |-> pos1, entry_price |-> entry1,
              equity |-> eq1, trade_results |-> trades1,
              event |-> IF sold THEN "sell" ELSE "none"]

\* lines 76-97: the state after the bar's if / elif
BarStep(row, ps, pl, pos, entry, eq, trades, tp, sl) ==
    LET cur_short == row.ma_s
        cur_long  == row.ma_l
        price     == row.close
    IN  IF GoldenCross(ps, pl, cur_short, cur_long, pos)
        THEN [position |-> RDivInt(eq, price), entry_price |-> price,
              equity |-> eq, trade_results |-> trades, event |-> "buy"]
        ELSE IF RPos(pos)
                /\ ShouldSell(ps, pl, cur_short, cur_long,
                              Change(price, entry), tp, sl)
        THEN [position |-> RInt(0), entry_price |-> 0,
              equity |-> RMulInt(pos, price),
              trade_results |-> Append(trades, price - entry),
              event |-> "sell"]
        ELSE [position |-> pos, entry_price |-> entry,
              equity |-> eq, trade_results |-> trades, event |-> "none"]

-----------------------------------------------------------------------------
(* finrl_mock.run_backtest: metrics                                        *)

\* line 112, in hundredths
FinalEquity(curve, initial_capital) ==
    IF curve # <<>> THEN Last(curve) ELSE initial_capital * 100

\* lines 113 and 131: round(total_return, 2), in hundredths of a percent
TotalReturnPct(curve, initial_capital) ==
    RoundHalfEven(
        (FinalEquity(curve, initial_capital) - initial_capital * 100) * 100,
        initial_capital)

RECURSIVE CumMax(_, _)
CumMax(curve, k) ==
    IF k = 1 THEN curve[1]
    ELSE LET m == CumMax(curve, k - 1) IN IF curve[k] > m THEN curve[k] ELSE m

RECURSIVE MinDrawdown(_, _)
\* lines 115-118: min over the bars of (equity - rolling_max) / rolling_max
MinDrawdown(curve, k) ==
    LET d == Rat(curve[k] - CumMax(curve, k), CumMax(curve, k))
    IN  IF k = 1 THEN d
        ELSE LET m == MinDrawdown(curve, k - 1) IN IF RLt(d, m) THEN d ELSE m

\* mutant: the drawdown reported as a magnitude
MaxDrawdownPct_Magnitude(curve) ==
    Round2(RMulInt(MinDrawdown(curve, Len(curve)), -100))

\* lines 117-118 and 132: round(max_drawdown, 2), in hundredths of a percent
MaxDrawdownPct(curve) ==
    Round2(RMulInt(MinDrawdown(curve, Len(curve)), 100))

\* mutant: a trade that breaks even counts as a win
WinRatePct_NotLosing(trades) ==
    IF Len(trades) # 0
    THEN RoundHalfEven(
            Cardinality({k \in 1..Len(trades) : trades[k] >= 0}) * 100 * 100,
            Len(trades))
    ELSE 0

\* lines 126 and 135: round(win_rate, 2), in hundredths of a percent
WinRatePct(trades) ==
    IF Len(trades) # 0
    THEN RoundHalfEven(
            Cardinality({k \in 1..Len(trades) : trades[k] > 0}) * 100 * 100,
            Len(trades))
    ELSE 0

NoMetrics ==
    [computed |-> FALSE, total_return_pct |-> 0, max_drawdown_pct |-> 0,
     num_trades |-> 0, win_rate_pct |-> 0]

\* nothing answered yet
NoRun == [http_status |-> 0]

\* compute_indicators has not returned
NoIndicators == <<>>

-----------------------------------------------------------------------------
(* core/deps.py: the dependencies of POST /api/v1/backtest.  Requests are  *)
(* coroutines of one event loop: a request runs alone between two awaits,  *)
(* and another request may run while it awaits the JWKS endpoint or the    *)
(* Supabase lookup.                                                        *)

\* lines 75 and 103, 173, 167
HTTP_401 == 401
HTTP_403 == 403
HTTP_503 == 503

\* requests in progress at one time, and requests served in all
Requests == 1..2
MaxRequests == 3

\* a JWKS document {"keys": [...]}: the kids of its keys
Jwks(keys) == [kind |-> "dict", keys |-> keys]
\* the document {}
EmptyDict == [kind |-> "empty", keys |-> {}]
\* line 43: _jwks_cache = None
NoJwks == [kind |-> "None", keys |-> {}]

\* line 48: `if _jwks_cache`: None and {} are false
Truthy(j) == j.kind = "dict"

\* line 112: jwks.get("keys", [])
KeysOf(j) == IF j.kind = "dict" THEN j.keys ELSE {}

\* a key jwk.construct cannot build (line 116 raises JWKError)
UnusableKids == {"kbad"}
\* what the endpoint serves before and after the issuer rotates its keys
JwksBefore == Jwks({"k1", "kbad"})
JwksAfter == Jwks({"k2"})

\* line 63: no Authorization header
NoCredentials ==
    [present |-> FALSE, wellformed |-> FALSE, kid |-> "", good |-> FALSE,
     debug |-> FALSE]
\* a bearer token: its header parses or not, the kid of its header, whether
\* signature, issuer and expiry verify under the key of that kid, and the
\* debug claim of its payload
Token(wellformed, kid, good, debug) ==
    [present |-> TRUE, wellformed |-> wellformed, kid |-> kid,
     good |-> good, debug |-> debug]

NoUser == [present |-> FALSE, sub |-> "", debug |-> FALSE, mock |-> FALSE]
\* lines 33-37: _DEBUG_USER; mock tells the injected dict from a payload
DEBUG_USER ==
    [present |-> TRUE, sub |-> "dev_user_local", debug |-> TRUE,
     mock |-> TRUE]
\* line 124: the payload jwt.decode returns
Payload(token) ==
    [present |-> TRUE, sub |-> "user", debug |-> token.debug, mock |-> FALSE]

\* a request slot nobody uses
IdleRequest ==
    [pc |-> "idle", credentials |-> NoCredentials, user |-> NoUser,
     status |-> 0, jwks |-> NoJwks, lookup |-> "none", called |-> FALSE,
     after_store |-> FALSE]

AuthIdle ==
    /\ DEBUG = FALSE
    /\ jwks_cache = NoJwks
    /\ issuer_jwks = JwksBefore
    /\ req = [r \in Requests |-> IdleRequest]
    /\ served = 0
    /\ first_jwks = NoJwks

-----------------------------------------------------------------------------
(* The request                                                             *)

Init ==
    /\ AuthIdle
    /\ pc = "handler"
    /\ body \in Bodies
    /\ http_status = 0
    /\ exc = "none"
    /\ fetches = 0
    /\ ohlcv = <<>>
    /\ df = <<>>
    /\ i = 0
    /\ equity = RInt(0)
    /\ position = RInt(0)
    /\ entry_price = 0
    /\ prev_short = NoValue
    /\ prev_long = NoValue
    /\ trade_results = <<>>
    /\ equity_curve = <<>>
    /\ metrics = NoMetrics
    /\ buys = 0
    /\ ledger = <<>>
    /\ entry_bar = 0
    /\ run_no = 1
    /\ first_run = NoRun
    /\ ind_ohlcv = <<>>
    /\ ind_window = 0
    /\ ind_pc = "idle"
    /\ ind = NoIndicators
    /\ ind_caught = "none"

\* mutant: equal windows let through
WindowsRejected_Strict(b) == b.ma_short > b.ma_long

\* api/v1/backtest.py line 38
WindowsRejected(b) == b.ma_short >= b.ma_long

\* api/v1/backtest.py lines 54-64: the status an exception is turned into
StatusOfException(e) == IF e = "ValueError" THEN HTTP_422 ELSE HTTP_500

\* api/v1/backtest.py lines 38-45: the check of the windows, then the call
HandlerEnter ==
    /\ pc = "handler"
    /\ IF WindowsRejected(body)
       THEN /\ http_status' = HTTP_422
            /\ pc' = "done"
       ELSE /\ http_status' = http_status
            /\ pc' = "fetch"
    /\ UNCHANGED <<body, exc, fetches, ohlcv, df, i, equity, position,
                   entry_price, prev_short, prev_long, trade_results,
                   equity_curve, metrics, buys, entry_bar, ledger>>
    /\ UNCHANGED other_vars

\* finrl_mock.py lines 49-50: whatever history the gateway returns
FetchMarketData ==
    /\ pc = "fetch"
    /\ \E t \in TailLens, j \in 0..MaxTail :
          /\ j <= t
          /\ \/ \E kind \in WarmKinds, ds \in [1..(t - j) -> Deltas] :
                   ohlcv' = PricedHistory(kind, j, ds)
             \/ ohlcv' = NaNLedHistory(t, j)
    /\ fetches' = fetches + 1
    /\ pc' = "frame"
    /\ UNCHANGED <<body, http_status, exc, df, i, equity, position,
                   entry_price, prev_short, prev_long, trade_results,
                   equity_curve, metrics, buys, entry_bar, ledger>>
    /\ UNCHANGED other_vars

\* finrl_mock.py lines 52-63
BuildFrame ==
    /\ pc = "frame"
    /\ IF InsufficientData(ohlcv, body.ma_long)
       THEN /\ exc' = "ValueError"
            /\ pc' = "raised"
            /\ df' = df
       ELSE /\ df' = Frame(ohlcv, body.ma_short, body.ma_long)
            /\ pc' = "init"
            /\ exc' = exc
    /\ UNCHANGED <<body, http_status, fetches, ohlcv, i, equity, position,
                   entry_price, prev_short, prev_long, trade_results,
                   equity_curve, metrics, buys, entry_bar, ledger>>
    /\ UNCHANGED other_vars

\* mutant: the list of trades outlives the call (a module-level list)
InitSimulation_KeepTrades ==
    /\ pc = "init"
    /\ equity' = RInt(body.initial_capital)
    /\ position' = RInt(0)
    /\ entry_price' = 0
    /\ trade_results' = trade_results
    /\ equity_curve' = <<>>
    /\ IF df = <<>>
       THEN /\ exc' = "IndexError"
            /\ pc' = "raised"
            /\ UNCHANGED <<prev_short, prev_long, i>>
       ELSE /\ prev_short' = df[1].ma_s
            /\ prev_long' = df[1].ma_l
            /\ i' = 1
            /\ pc' = "loop"
            /\ exc' = exc
    /\ entry_bar' = 0
    /\ UNCHANGED <<body, http_status, fetches, ohlcv, df, metrics, buys,
                   ledger>>
    /\ UNCHANGED other_vars

\* mutant: the previous averages start at 0.0, not at the first row's own
InitSimulation_PrevUnset ==
    /\ pc = "init"
    /\ equity' = RInt(body.initial_capital)
    /\ position' = RInt(0)
    /\ entry_price' = 0
    /\ trade_results' = <<>>
    /\ equity_curve' = <<>>
    /\ IF df = <<>>
       THEN /\ exc' = "IndexError"
            /\ pc' = "raised"
            /\ UNCHANGED <<prev_short, prev_long, i>>
       ELSE /\ prev_short' = RInt(0)
            /\ prev_long' = RInt(0)
            /\ i' = 1
            /\ pc' = "loop"
            /\ exc' = exc
    /\ entry_bar' = 0
    /\ UNCHANGED <<body, http_status, fetches, ohlcv, df, metrics, buys,
                   ledger>>
    /\ UNCHANGED other_vars

\* finrl_mock.py lines 66-73; .iloc[0] of an empty frame raises IndexError
InitSimulation ==
    /\ pc = "init"
    /\ equity' = RInt(body.initial_capital)
    /\ position' = RInt(0)
    /\ entry_price' = 0
    /\ trade_results' = <<>>
    /\ equity_curve' = <<>>
    /\ IF df = <<>>
       THEN /\ exc' = "IndexError"
            /\ pc' = "raised"
            /\ UNCHANGED <<prev_short, prev_long, i>>
       ELSE /\ prev_short' = df[1].ma_s
            /\ prev_long' = df[1].ma_l
            /\ i' = 1
            /\ pc' = "loop"
            /\ exc' = exc
    /\ entry_bar' = 0
    /\ UNCHANGED <<body, http_status, fetches, ohlcv, df, metrics, buys,
                   ledger>>
    /\ UNCHANGED other_vars

\* finrl_mock.py lines 75-103: one iteration of the loop
SimBar ==
    /\ pc = "loop"
    /\ i <= Len(df)
    /\ LET row == df[i]
           nxt == BarStep(row, prev_short, prev_long, position, entry_price,
                          equity, trade_results, body.take_profit_pct,
                          body.stop_loss_pct)
       IN  /\ position' = nxt.position
           /\ entry_price' = nxt.entry_price
           /\ equity' = nxt.equity
           /\ trade_results' = nxt.trade_results
           /\ equity_curve' =
                 Append(equity_curve,
                        Round2(CurrentEquity(nxt.position, row.close,
                                             nxt.equity)))
           /\ prev_short' = row.ma_s
           /\ prev_long' = row.ma_l
           /\ buys' = IF nxt.event = "buy" THEN buys + 1 ELSE buys
           /\ ledger' = IF nxt.event = "sell"
                        THEN Append(ledger, [shares |-> position,
                                             entry |-> entry_price,
                                             exit |-> row.close])
                        ELSE ledger
           /\ entry_bar' = IF nxt.event = "buy" THEN i ELSE entry_bar
    /\ i' = i + 1
    /\ UNCHANGED <<pc, body, http_status, exc, fetches, ohlcv, df, metrics>>
    /\ UNCHANGED other_vars

\* mutant: the open position is left open
CloseOpenPosition_NoLiquidation ==
    /\ pc = "loop"
    /\ i > Len(df)
    /\ pc' = "metrics"
    /\ UNCHANGED <<body, http_status, exc, fetches, ohlcv, df, i, equity,
                   position, entry_price, prev_short, prev_long,
                   trade_results, equity_curve, metrics, buys, entry_bar,
                   ledger>>
    /\ UNCHANGED other_vars

\* finrl_mock.py lines 105-109: after the last bar
CloseOpenPosition ==
    /\ pc = "loop"
    /\ i > Len(df)
    /\ IF RPos(position)
       THEN LET last_price == Last(df).close
            IN  /\ equity' = RMulInt(position, last_price)
                /\ trade_results' =
                      Append(trade_results, last_price - entry_price)
                /\ ledger' = Append(ledger, [shares |-> position,
                                             entry |-> entry_price,
                                             exit |-> last_price])
       ELSE UNCHANGED <<equity, trade_results, ledger>>
    /\ pc' = "metrics"
    /\ UNCHANGED <<body, http_status, exc, fetches, ohlcv, df, i, position,
                   entry_price, prev_short, prev_long, equity_curve, metrics,
                   buys, entry_bar>>
    /\ UNCHANGED other_vars

\* finrl_mock.py lines 111-138
CalcMetrics ==
    /\ pc = "metrics"
    /\ metrics' =
          [computed |-> TRUE,
           total_return_pct |->
               TotalReturnPct(equity_curve, body.initial_capital),
           max_drawdown_pct |-> MaxDrawdownPct(equity_curve),
           num_trades |-> Len(trade_results),
           win_rate_pct |-> WinRatePct(trade_results)]
    /\ pc' = "returned"
    /\ UNCHANGED <<body, http_status, exc, fetches, ohlcv, df, i, equity,
                   position, entry_price, prev_short, prev_long,
                   trade_results, equity_curve, buys, entry_bar, ledger>>
    /\ UNCHANGED other_vars

\* api/v1/backtest.py lines 54-71: the response
HandlerRespond ==
    /\ pc \in {"returned", "raised"}
    /\ http_status' =
          IF pc = "returned" THEN HTTP_200 ELSE StatusOfException(exc)
    /\ pc' = "done"
    /\ UNCHANGED <<body, exc, fetches, ohlcv, df, i, equity, position,
                   entry_price, prev_short, prev_long, trade_results,
                   equity_curve, metrics, buys, entry_bar, ledger>>
    /\ UNCHANGED other_vars

Next ==
    \/ HandlerEnter
    \/ FetchMarketData
    \/ BuildFrame
    \/ InitSimulation
    \/ SimBar
    \/ CloseOpenPosition
    \/ CalcMetrics
    \/ HandlerRespond

Spec == Init /\ [][Next]_vars

-----------------------------------------------------------------------------
(* Two calls in a row with the same body and the same history. The locals  *)
(* of run_backtest are the model's variables: the second call finds in     *)
(* them what the first one left, until the code assigns them.              *)

\* what a call answers
RunOutcome ==
    [http_status |-> http_status, trade_results |-> trade_results,
     equity_curve |-> equity_curve, metrics |-> metrics, ledger |-> ledger]

\* api/v1/backtest.py line 31: the handler is called again
SecondCall ==
    /\ pc = "done"
    /\ run_no = 1
    /\ first_run' = RunOutcome
    /\ run_no' = 2
    /\ pc' = "handler"
    /\ http_status' = 0
    /\ exc' = "none"
    /\ buys' = 0
    /\ ledger' = <<>>
    /\ UNCHANGED <<body, fetches, ohlcv, df, i, equity, position, entry_price,
                   prev_short, prev_long, trade_results, equity_curve,
                   metrics, entry_bar, ind_vars, auth_vars>>

\* finrl_mock.py lines 49-50 in the first call
FirstFetch == run_no = 1 /\ FetchMarketData

\* finrl_mock.py lines 49-50 in the second call: the same history again
SameHistoryAgain ==
    /\ pc = "fetch"
    /\ run_no = 2
    /\ fetches' = fetches + 1
    /\ pc' = "frame"
    /\ UNCHANGED <<body, http_status, exc, ohlcv, df, i, equity, position,
                   entry_price, prev_short, prev_long, trade_results,
                   equity_curve, metrics, buys, ledger, entry_bar>>
    /\ UNCHANGED other_vars

InitTwice == Init /\ body.take_profit_pct = body.stop_loss_pct

NextTwice ==
    \/ HandlerEnter
    \/ FirstFetch
    \/ SameHistoryAgain
    \/ BuildFrame
    \/ InitSimulation
    \/ SimBar
    \/ CloseOpenPosition
    \/ CalcMetrics
    \/ HandlerRespond
    \/ SecondCall

SpecTwice == InitTwice /\ [][NextTwice]_vars

TypeOK ==
    /\ pc \in {"handler", "fetch", "frame", "init", "loop", "metrics",
                "returned", "raised", "done"}
    /\ http_status \in {0, HTTP_200, HTTP_422, HTTP_500}

-----------------------------------------------------------------------------
(* Whole numbers beyond TLC's integers, for the exponential averages of    *)
(* qlib_wrapper.py: a natural is the sequence of its base-10000 digits,    *)
(* least significant first, without a leading zero digit; a signed number  *)
(* is a pair <<p, n>> of naturals that stands for p - n. A fraction is a   *)
(* record [nan, num, den] of naturals; it stands for the float.            *)

RECURSIVE BNat(_)
BNat(k) == IF k = 0 THEN <<>> ELSE <<k % 10000>> \o BNat(k \div 10000)

RECURSIVE BAddC(_, _, _)
BAddC(a, b, c) ==
    IF b = <<>> /\ c = 0 THEN a
    ELSE IF a = <<>> /\ c = 0 THEN b
    ELSE IF a = <<>> /\ b = <<>> THEN BNat(c)
    ELSE LET x == (IF a = <<>> THEN 0 ELSE Head(a))
                  + (IF b = <<>> THEN 0 ELSE Head(b)) + c
         IN  <<x % 10000>> \o BAddC(IF a = <<>> THEN a ELSE Tail(a),
                                     IF b = <<>> THEN b ELSE Tail(b),
                                     x \div 10000)

BAdd(a, b) == BAddC(a, b, 0)

RECURSIVE BMulC(_, _, _)
BMulC(a, k, c) ==
    IF a = <<>> THEN BNat(c)
    ELSE LET x == Head(a) * k + c
         IN  <<x % 10000>> \o BMulC(Tail(a), k, x \div 10000)

\* a natural times an integer 0 <= k <= 200000
BMulInt(a, k) == IF k = 0 THEN <<>> ELSE BMulC(a, k, 0)

RECURSIVE BMul(_, _)
BMul(a, b) ==
    IF a = <<>> \/ b = <<>> THEN <<>>
    ELSE LET rest == BMul(a, Tail(b))
         IN  BAdd(BMulInt(a, Head(b)),
                  IF rest = <<>> THEN rest ELSE <<0>> \o rest)

RECURSIVE PowersFrom(_, _, _)
PowersFrom(ps, k, e) ==
    IF Len(ps) = e + 1 THEN ps
    ELSE PowersFrom(Append(ps, BMulInt(ps[Len(ps)], k)), k, e)

\* <<k^0, k^1, .., k^e>>
Powers(k, e) == PowersFrom(<<<<1>>>>, k, e)

RECURSIVE BLtFrom(_, _, _)
BLtFrom(a, b, k) ==
    IF k = 0 THEN FALSE
    ELSE IF a[k] # b[k] THEN a[k] < b[k] ELSE BLtFrom(a, b, k - 1)

BLt(a, b) ==
    IF Len(a) # Len(b) THEN Len(a) < Len(b) ELSE BLtFrom(a, b, Len(a))

BLe(a, b) == ~BLt(b, a)

RECURSIVE BQuot(_, _, _, _)
\* the largest q in lo..hi with q * den <= num
BQuot(num, den, lo, hi) ==
    IF lo = hi THEN lo
    ELSE LET mid == (lo + hi + 1) \div 2
         IN  IF BLe(BMulInt(den, mid), num) THEN BQuot(num, den, mid, hi)
             ELSE BQuot(num, den, lo, mid - 1)

\* round(num / den, 2) in hundredths, half to even, for a quotient below 1000
BRound2(num, den) ==
    LET n == BMulInt(num, 100)
        q == BQuot(n, den, 0, 99999)
        twice == BMulInt(n, 2)
        odd == BMulInt(den, 2 * q + 1)
    IN  IF BLt(twice, odd) THEN q
        ELSE IF BLt(odd, twice) THEN q + 1
        ELSE IF q % 2 = 0 THEN q ELSE q + 1

SNat(a) == <<a, <<>>>>
SAdd(x, y) == <<BAdd(x[1], y[1]), BAdd(x[2], y[2])>>
SSub(x, y) == <<BAdd(x[1], y[2]), BAdd(x[2], y[1])>>
SMulInt(x, k) == <<BMulInt(x[1], k), BMulInt(x[2], k)>>
SLt(x, y) == BLt(BAdd(x[1], y[2]), BAdd(y[1], x[2]))

SMul(x, b) == <<BMul(x[1], b), BMul(x[2], b)>>

-----------------------------------------------------------------------------
(* qlib_wrapper.py: the indicator engine                                   *)

\* line 41: period of the RSI
RSI_PERIOD == 14
\* line 91: closes the MACD needs
MACD_MIN_CLOSES == 26
\* lines 94, 95 and 97: spans of the three exponential averages
SPAN_FAST == 12
SPAN_SLOW == 26
SPAN_SIGNAL == 9
\* lines 43 and 44: windows of the two moving averages
MA_FAST_WINDOW == 20
MA_SLOW_WINDOW == 60
\* lines 54 and 72: the default RSI
RSI_DEFAULT == 50

Fraction(num, den) == [nan |-> FALSE, num |-> num, den |-> den]
FracNaN == [nan |-> TRUE, num |-> <<>>, den |-> <<>>]

\* a float rounded to two decimals (hundredths), or nan
Rounded(v) == [nan |-> FALSE, value |-> v]
RoundedNaN == [nan |-> TRUE, value |-> 0]

\* an optional value, or None
Some(v) == [none |-> FALSE, value |-> v]
None == [none |-> TRUE, value |-> 0]

\* line 63: the frame has a "close" column when some bar has the key
HasCloseColumn(bars) == \E k \in 1..Len(bars) : bars[k].has_close

\* lines 63-66: the valid closes; a bar without the key, a null and an
\* unparseable close are NaN and are dropped
ToDataframe(bars) ==
    DropNaN([k \in 1..Len(bars) |->
                IF bars[k].has_close THEN bars[k].close ELSE NaN])

RECURSIVE EwmComSums(_, _, _, _)
\* ys[t] is the sum over k <= t of xs[k] * (com / (com + 1))^(t - k), times
\* (com + 1)^(t - 1); pw are the powers of com + 1
EwmComSums(ys, xs, com, pw) ==
    IF Len(ys) = Len(xs) THEN ys
    ELSE LET t == Len(ys) + 1
             prev == IF t = 1 THEN <<>> ELSE ys[t - 1]
         IN  EwmComSums(Append(ys, BAdd(BMulInt(prev, com),
                                        BMulInt(pw[t], xs[t]))),
                        xs, com, pw)

\* lines 78-79: the last value of Series.ewm(com, min_periods).mean() with
\* adjust=True: the mean of all values with weights (com / (com + 1))^age
EwmComMean(xs, com, min_periods) ==
    IF Len(xs) < min_periods THEN FracNaN
    ELSE LET n == Len(xs)
             pw == Powers(com + 1, n)
         IN  Fraction(EwmComSums(<<>>, xs, com, pw)[n],
                      EwmComSums(<<>>, [k \in 1..n |-> 1], com, pw)[n])

\* lines 69-83: _calc_rsi; with rs = n / d, 100 - 100 / (1 + rs) is
\* 100 * n / (d + n); replace(0, nan) makes rs and the RSI nan
CalcRsi(series, period) ==
    IF Len(series) < period + 1 THEN Fraction(BNat(RSI_DEFAULT), BNat(1))
    ELSE LET delta == [k \in 1..(Len(series) - 1) |->
                          series[k + 1] - series[k]]
             gain == [k \in DOMAIN delta |->
                          IF delta[k] > 0 THEN delta[k] ELSE 0]
             loss == [k \in DOMAIN delta |->
                          IF -delta[k] > 0 THEN -delta[k] ELSE 0]
             avg_gain == EwmComMean(gain, period - 1, period)
             avg_loss == EwmComMean(loss, period - 1, period)
         IN  IF avg_loss.num = <<>> THEN FracNaN
             ELSE LET rs == Fraction(BMul(avg_gain.num, avg_loss.den),
                                     BMul(avg_gain.den, avg_loss.num))
                  IN  Fraction(BMulInt(rs.num, 100), BAdd(rs.den, rs.num))

RECURSIVE EwmSpanScaled(_, _, _, _)
\* the values y_1, y_2, .. of Series.ewm(span, adjust=False).mean(), y_k
\* times (span + 1)^(k - 1):  y_1 = x_1,
\* y_k = ((span - 1) * y_(k-1) + 2 * x_k) / (span + 1);
\* pw are the powers of span + 1
EwmSpanScaled(ys, xs, span, pw) ==
    IF Len(ys) = Len(xs) THEN ys
    ELSE LET t == Len(ys) + 1
         IN  EwmSpanScaled(
                 Append(ys, IF t = 1 THEN xs[1]
                            ELSE SAdd(SMulInt(ys[t - 1], span - 1),
                                      SMulInt(SMul(xs[t], pw[t - 1]), 2))),
                 xs, span, pw)

\* lines 94, 95 and 97: Series.ewm(span, adjust=False).mean() of signed
\* numbers over one denominator d; the values are over d * (span+1)^(n-1)
EwmSpan(xs, span) ==
    LET n == Len(xs)
        pw == Powers(span + 1, n)
        ys == EwmSpanScaled(<<>>, xs, span, pw)
    IN  SubSeq([k \in 1..n |-> SMul(ys[k], pw[n - k + 1])], 1, n)

\* mutant: the two labels swapped
MacdLabel_Swapped(macd_last, signal_last) ==
    IF SLt(signal_last, macd_last) THEN "bearish"
    ELSE IF SLt(macd_last, signal_last) THEN "bullish"
    ELSE "neutral"

\* lines 99-103
MacdLabel(macd_last, signal_last) ==
    IF SLt(signal_last, macd_last) THEN "bullish"
    ELSE IF SLt(macd_last, signal_last) THEN "bearish"
    ELSE "neutral"

\* lines 94-97: the last value of the MACD line and of the signal line,
\* both over the denominator (13 * 27 * 10)^(n - 1)
MacdLast(series) ==
    LET n == Len(series)
        xs == SubSeq([k \in 1..n |-> SNat(BNat(series[k]))], 1, n)
        ema12 == EwmSpan(xs, SPAN_FAST)
        ema26 == EwmSpan(xs, SPAN_SLOW)
        slow == Powers(SPAN_SLOW + 1, n)[n]
        fast == Powers(SPAN_FAST + 1, n)[n]
        macd_line == SubSeq([k \in 1..n |->
                                SSub(SMul(ema12[k], slow),
                                     SMul(ema26[k], fast))], 1, n)
        signal_line == EwmSpan(macd_line, SPAN_SIGNAL)
    IN  [macd |-> SMul(macd_line[n], Powers(SPAN_SIGNAL + 1, n)[n]),
         signal |-> signal_line[n]]

\* lines 86-103: _calc_macd_signal
CalcMacdSignal(series) ==
    IF Len(series) < MACD_MIN_CLOSES THEN "neutral"
    ELSE LET last == MacdLast(series)
         IN  MacdLabel(last.macd, last.signal)

\* mutant: a series of exactly `window` closes has no average yet
CalcMa_StrictWindow(series, window) ==
    IF Len(series) <= window THEN None
    ELSE Some(Rat(SumRange(series, Len(series) - window + 1, Len(series)),
                  window))

\* lines 106-109: _calc_ma
CalcMa(series, window) ==
    IF Len(series) < window THEN None
    ELSE Some(Rat(SumRange(series, Len(series) - window + 1, Len(series)),
                  window))

\* line 47: round(float(rsi), 2); round(nan, 2) is nan and raises nothing
RoundRsi(f) == IF f.nan THEN RoundedNaN ELSE Rounded(BRound2(f.num, f.den))

\* lines 49-50
RoundMa(m) == IF m.none THEN None ELSE Some(Round2(m.value))

\* line 54
Defaults ==
    [rsi |-> Rounded(RSI_DEFAULT * 100), macd |-> "neutral", ma20 |-> None,
     ma60 |-> None]

\* lines 40-51
Indicators(bars) ==
    LET close == ToDataframe(bars)
    IN  [rsi |-> RoundRsi(CalcRsi(close, RSI_PERIOD)),
         macd |-> CalcMacdSignal(close),
         ma20 |-> RoundMa(CalcMa(close, MA_FAST_WINDOW)),
         ma60 |-> RoundMa(CalcMa(close, MA_SLOW_WINDOW))]

\* mutant: no handler around the body, the KeyError of line 64 goes out
ComputeIndicators_NoCatch ==
    /\ ind_pc = "call"
    /\ IF HasCloseColumn(ind_ohlcv)
       THEN /\ ind' = Indicators(ind_ohlcv)
            /\ ind_pc' = "returned"
       ELSE /\ ind' = ind
            /\ ind_pc' = "raised"
    /\ ind_caught' = "none"
    /\ UNCHANGED <<pc, body, http_status, exc, fetches, ohlcv, df, i, equity,
                   position, entry_price, prev_short, prev_long,
                   trade_results, equity_curve, metrics, buys, ledger,
                   entry_bar, run_no, first_run, ind_ohlcv, ind_window,
                   auth_vars>>

\* lines 39-54: compute_indicators; df["close"] raises KeyError when no bar
\* has the key (the empty list included), and the handler catches it
ComputeIndicators ==
    /\ ind_pc = "call"
    /\ IF HasCloseColumn(ind_ohlcv)
       THEN /\ ind' = Indicators(ind_ohlcv)
            /\ ind_caught' = "none"
       ELSE /\ ind' = Defaults
            /\ ind_caught' = "KeyError"
    /\ ind_pc' = "returned"
    /\ UNCHANGED <<pc, body, http_status, exc, fetches, ohlcv, df, i, equity,
                   position, entry_price, prev_short, prev_long,
                   trade_results, equity_curve, metrics, buys, ledger,
                   entry_bar, run_no, first_run, ind_ohlcv, ind_window,
                   auth_vars>>

\* analyze.py line 59: the lists compute_indicators is called with
IndTail == 2
IndShapes == {"flat", "rising", "falling", "zigzag"}
IndDeltas == {-1, 0, 1}
IndDamages == {"none", "null", "nokey", "nokeys"}
IndLens ==
    {0, 1, RSI_PERIOD, RSI_PERIOD + 1, MA_FAST_WINDOW - 1, MA_FAST_WINDOW,
     MACD_MIN_CLOSES - 1, MACD_MIN_CLOSES, MACD_MIN_CLOSES + 1}

\* the k-th close of a series of n closes before its last moves
IndBase(shape, n, k) ==
    CASE shape = "flat" -> BasePrice
      [] shape = "rising" -> BasePrice + k
      [] shape = "falling" -> BasePrice + n - k
      [] shape = "zigzag" -> BasePrice + (k % 2)

\* n closes: the shape, then the moves ds from the last close of the shape
IndCloses(shape, n, ds) ==
    LET m == n - Len(ds)
    IN  [k \in 1..m |-> IndBase(shape, n, k)]
            \o Walk(IF m = 0 THEN BasePrice ELSE IndBase(shape, n, m), ds)

\* the bars of the closes: whole, or the first bar with a null close, or
\* the first bar without the key, or no bar with the key
IndBars(closes, damage) ==
    [k \in 1..Len(closes) |->
        [has_close |-> ~(damage = "nokeys" \/ (damage = "nokey" /\ k = 1)),
         close |-> IF damage = "null" /\ k = 1 THEN NaN ELSE closes[k]]]

\* the backtest handler is not running
BacktestIdle ==
    /\ pc = "idle"
    /\ body = <<>>
    /\ http_status = 0
    /\ exc = "none"
    /\ fetches = 0
    /\ ohlcv = <<>>
    /\ df = <<>>
    /\ i = 0
    /\ equity = RInt(0)
    /\ position = RInt(0)
    /\ entry_price = 0
    /\ prev_short = NoValue
    /\ prev_long = NoValue
    /\ trade_results = <<>>
    /\ equity_curve = <<>>
    /\ metrics = NoMetrics
    /\ buys = 0
    /\ ledger = <<>>
    /\ entry_bar = 0
    /\ run_no = 1
    /\ first_run = NoRun

InitInd ==
    /\ BacktestIdle
    /\ AuthIdle
    /\ ind_pc = "call"
    /\ ind = NoIndicators
    /\ ind_caught = "none"
    /\ ind_window = 0
    /\ \E shape \in IndShapes, n \in IndLens, t \in 0..IndTail,
          damage \in IndDamages :
          /\ t <= n
          /\ \E ds \in [1..t -> IndDeltas] :
                ind_ohlcv = IndBars(IndCloses(shape, n, ds), damage)

NextInd == ComputeIndicators

SpecInd == InitInd /\ [][NextInd]_vars

-----------------------------------------------------------------------------
(* _calc_ma called on its own, with either window of compute_indicators   *)

IndWindows == {MA_FAST_WINDOW, MA_SLOW_WINDOW}

\* lines 43-44: a call of _calc_ma on the closes of the frame
CalcMaCall ==
    /\ ind_pc = "call"
    /\ ind' = [ma |-> CalcMa(ToDataframe(ind_ohlcv), ind_window)]
    /\ ind_pc' = "returned"
    /\ UNCHANGED <<pc, body, http_status, exc, fetches, ohlcv, df, i, equity,
                   position, entry_price, prev_short, prev_long,
                   trade_results, equity_curve, metrics, buys, ledger,
                   entry_bar, run_no, first_run, ind_ohlcv, ind_window,
                   ind_caught, auth_vars>>

InitMa ==
    /\ BacktestIdle
    /\ AuthIdle
    /\ ind_pc = "call"
    /\ ind = NoIndicators
    /\ ind_caught = "none"
    /\ ind_window \in IndWindows
    /\ \E shape \in IndShapes, n \in (ind_window - 1)..(ind_window + 1),
          t \in 0..IndTail, damage \in {"none", "null"} :
          \E ds \in [1..t -> IndDeltas] :
             ind_ohlcv = IndBars(IndCloses(shape, n, ds), damage)

NextMa == CalcMaCall

SpecMa == InitMa /\ [][NextMa]_vars

-----------------------------------------------------------------------------
(* core/deps.py: get_current_user, _verify_jwt, _fetch_jwks,               *)
(* get_premium_user                                                        *)

backtest_vars ==
    <<pc, body, http_status, exc, fetches, ohlcv, df, i, equity, position,
      entry_price, prev_short, prev_long, trade_results, equity_curve,
      metrics, buys, ledger, entry_bar, run_no, first_run>>

\* the indicator engine is not called
IndicatorsIdle ==
    /\ ind_ohlcv = <<>>
    /\ ind_window = 0
    /\ ind_pc = "idle"
    /\ ind = NoIndicators
    /\ ind_caught = "none"

\* lines 87-91 and 114, 127: credential_exception out of _verify_jwt: with
\* DEBUG the handler of line 89 injects the mock user, else HTTP 401
Reject(q) ==
    IF DEBUG THEN [q EXCEPT !.user = DEBUG_USER, !.pc = "premium"]
    ELSE [q EXCEPT !.status = HTTP_401, !.pc = "done"]

\* an exception that is neither JWTError nor HTTPException leaves the
\* dependency: the server answers 500
Unhandled(q) == [q EXCEPT !.status = HTTP_500, !.pc = "done"]

\* a request arrives, with or without a bearer token
Arrive(r) ==
    /\ req[r].pc = "idle"
    /\ served < MaxRequests
    /\ served' = served + 1
    /\ \E c \in {NoCredentials, Token(FALSE, "", FALSE, FALSE)}
               \cup {Token(TRUE, kid, good, debug) :
                        kid \in {"k1", "k2", "kbad"},
                        good \in BOOLEAN, debug \in BOOLEAN} :
          req' = [req EXCEPT ![r] =
                     [IdleRequest EXCEPT !.pc = "current_user",
                                         !.credentials = c,
                                         !.after_store = Truthy(first_jwks)]]
    /\ UNCHANGED <<DEBUG, jwks_cache, issuer_jwks, first_jwks>>
    /\ UNCHANGED <<backtest_vars, ind_vars>>

\* lines 81-97 up to the call of _verify_jwt
GetCurrentUser(r) ==
    /\ req[r].pc = "current_user"
    /\ req' = [req EXCEPT ![r] =
                  IF ~req[r].credentials.present
                  THEN IF DEBUG
                       THEN [@ EXCEPT !.user = DEBUG_USER, !.pc = "premium"]
                       ELSE [@ EXCEPT !.status = HTTP_401, !.pc = "done"]
                  ELSE [@ EXCEPT !.pc = "verify"]]
    /\ UNCHANGED <<DEBUG, jwks_cache, issuer_jwks, served, first_jwks>>
    /\ UNCHANGED <<backtest_vars, ind_vars>>

\* lines 108-111 and 48-52: the header of the token, then _fetch_jwks up to
\* its await: the cached value, or a GET sent to the JWKS endpoint
VerifyJwt(r) ==
    /\ req[r].pc = "verify"
    /\ req' = [req EXCEPT ![r] =
                  IF ~req[r].credentials.wellformed THEN Reject(@)
                  ELSE IF Truthy(jwks_cache)
                  THEN [@ EXCEPT !.jwks = jwks_cache, !.pc = "match"]
                  ELSE [@ EXCEPT !.pc = "fetching"]]
    /\ UNCHANGED <<DEBUG, jwks_cache, issuer_jwks, served, first_jwks>>
    /\ UNCHANGED <<backtest_vars, ind_vars>>

\* what the JWKS endpoint answers
JwksAnswers == {"unreachable", "error_status", "empty", "keys"}

\* lines 52-55: the answer of the JWKS endpoint arrives.  httpx.HTTPError
\* (no connection, raise_for_status) is not a JWTError: nothing catches it
FetchJwks(r) ==
    /\ req[r].pc = "fetching"
    /\ \E answer \in JwksAnswers :
          IF answer \in {"unreachable", "error_status"}
          THEN /\ req' = [req EXCEPT ![r] = Unhandled(@)]
               /\ UNCHANGED <<jwks_cache, first_jwks>>
          ELSE LET json == IF answer = "empty" THEN EmptyDict
                           ELSE issuer_jwks
               IN  /\ jwks_cache' = json
                   /\ first_jwks' = IF ~Truthy(first_jwks) /\ Truthy(json)
                                    THEN json ELSE first_jwks
                   /\ req' = [req EXCEPT ![r] =
                                 [@ EXCEPT !.jwks = json, !.pc = "match"]]
    /\ UNCHANGED <<DEBUG, issuer_jwks, served>>
    /\ UNCHANGED <<backtest_vars, ind_vars>>

\* lines 112-127: the key of the kid, jwk.construct, jwt.decode.  JWKError
\* of jwk.construct is a JOSEError but not a JWTError: nothing catches it
VerifyJwtKey(r) ==
    /\ req[r].pc = "match"
    /\ LET token == req[r].credentials
           matching_keys == {k \in KeysOf(req[r].jwks) : k = token.kid}
       IN  req' = [req EXCEPT ![r] =
                      IF matching_keys = {} THEN Reject(@)
                      ELSE IF token.kid \in UnusableKids THEN Unhandled(@)
                      ELSE IF ~token.good THEN Reject(@)
                      ELSE [@ EXCEPT !.user = Payload(token),
                                     !.pc = "premium"]]
    /\ UNCHANGED <<DEBUG, jwks_cache, issuer_jwks, served, first_jwks>>
    /\ UNCHANGED <<backtest_vars, ind_vars>>

\* lines 146-161: the DEBUG grant, or the GET sent to Supabase
GetPremiumUser(r) ==
    /\ req[r].pc = "premium"
    /\ req' = [req EXCEPT ![r] =
                  IF DEBUG /\ req[r].user.debug
                  THEN [@ EXCEPT !.pc = "handler"]
                  ELSE [@ EXCEPT !.pc = "lookup"]]
    /\ UNCHANGED <<DEBUG, jwks_cache, issuer_jwks, served, first_jwks>>
    /\ UNCHANGED <<backtest_vars, ind_vars>>

\* what the profiles lookup gives: an httpx.HTTPError, no row, or the role
\* of the first row
LookupAnswers == {"http_error", "no_rows", "free", "premium"}

\* lines 162-177: the answer of Supabase arrives
ProfilesLookup(r) ==
    /\ req[r].pc = "lookup"
    /\ \E answer \in LookupAnswers :
          req' = [req EXCEPT ![r] =
                     [@ EXCEPT !.lookup = answer,
                               !.status = CASE answer = "http_error" -> HTTP_503
                                            [] answer = "premium" -> 0
                                            [] OTHER -> HTTP_403,
                               !.pc = IF answer = "premium" THEN "handler"
                                      ELSE "done"]]
    /\ UNCHANGED <<DEBUG, jwks_cache, issuer_jwks, served, first_jwks>>
    /\ UNCHANGED <<backtest_vars, ind_vars>>

\* backtest.py lines 34-37: the dependencies have returned, the body of the
\* handler runs (and calls finrl_mock.run_backtest)
RunBacktestHandler(r) ==
    /\ req[r].pc = "handler"
    /\ req' = [req EXCEPT ![r] = [@ EXCEPT !.called = TRUE, !.pc = "done"]]
    /\ UNCHANGED <<DEBUG, jwks_cache, issuer_jwks, served, first_jwks>>
    /\ UNCHANGED <<backtest_vars, ind_vars>>

\* the request is over, its slot is free again
Respond(r) ==
    /\ req[r].pc = "done"
    /\ req' = [req EXCEPT ![r] = IdleRequest]
    /\ UNCHANGED <<DEBUG, jwks_cache, issuer_jwks, served, first_jwks>>
    /\ UNCHANGED <<backtest_vars, ind_vars>>

\* the issuer rotates its keys
RotateKeys ==
    /\ issuer_jwks = JwksBefore
    /\ issuer_jwks' = JwksAfter
    /\ UNCHANGED <<DEBUG, jwks_cache, req, served, first_jwks>>
    /\ UNCHANGED <<backtest_vars, ind_vars>>

InitAuth ==
    /\ BacktestIdle
    /\ IndicatorsIdle
    /\ DEBUG \in BOOLEAN
    /\ jwks_cache = NoJwks
    /\ issuer_jwks = JwksBefore
    /\ req = [r \in Requests |-> IdleRequest]
    /\ served = 0
    /\ first_jwks = NoJwks

NextAuth ==
    \/ \E r \in Requests : Arrive(r)
    \/ \E r \in Requests : GetCurrentUser(r)
    \/ \E r \in Requests : VerifyJwt(r)
    \/ \E r \in Requests : FetchJwks(r)
    \/ \E r \in Requests : VerifyJwtKey(r)
    \/ \E r \in Requests : GetPremiumUser(r)
    \/ \E r \in Requests : ProfilesLookup(r)
    \/ \E r \in Requests : RunBacktestHandler(r)
    \/ \E r \in Requests : Respond(r)
    \/ RotateKeys

SpecAuth == InitAuth /\ [][NextAuth]_vars

-----------------------------------------------------------------------------
(* Vocabulary of the properties                                            *)

\* a step of the loop over the bar df[i]
BarTaken == pc = "loop" /\ i <= Len(df) /\ i' = i + 1

\* a bar of the loop has just been recorded, nothing else has run since
AfterBar == pc = "loop" /\ i > 1

Long(pos) == RPos(pos)
Flat(pos) == RZero(pos)

\* price / entry - 1, as the specification words the unrealised return
UnrealisedReturn(price, entry) == RAdd(Rat(price, entry), RInt(-1))

\* sum over the closed trades of shares * (exit - entry)
RECURSIVE RealisedPnl(_)
RealisedPnl(l) ==
    IF l = <<>> THEN RInt(0)
    ELSE RAdd(RMulInt(Head(l).shares, Head(l).exit - Head(l).entry),
              RealisedPnl(Tail(l)))

-----------------------------------------------------------------------------
(* C1: the equity recorded for a bar is shares * close when the position   *)
(* is Long after the bar, and the cash balance when it is Flat (to the     *)
(* cent).  On an entry bar that is the cash held just before the buy.      *)
C1_RecordedEquity ==
    AfterBar =>
        Last(equity_curve) =
            IF Long(position)
            THEN Round2(RMulInt(position, df[i - 1].close))
            ELSE Round2(equity)

(* C2: the final equity (last equity-curve point) is initial_capital plus  *)
(* the sum over all closed trades, the forced liquidation included, of     *)
(* shares * (exit - entry), to the cent.                                   *)
C2_EquityConservation ==
    pc = "returned" =>
        FinalEquity(equity_curve, body.initial_capital) =
            Round2(RAdd(RInt(body.initial_capital), RealisedPnl(ledger)))

(* C3: a bar opens a position exactly when the position is Flat and the    *)
(* averages go from prev_short <= prev_long to cur_short > cur_long; the   *)
(* buy is at the bar's close with shares = cash / price and entry_price =  *)
(* price, and cash is 0 whenever the position is Long.                     *)
C3_EntryFullyInvested ==
    [][BarTaken =>
        LET row == df[i]
            golden == /\ Flat(position)
                      /\ RLe(prev_short, prev_long)
                      /\ RLt(row.ma_l, row.ma_s)
            opened == Flat(position) /\ Long(position')
        IN  /\ opened <=> golden
            /\ opened => /\ position' = RDivInt(equity, row.close)
                          /\ entry_price' = row.close
            /\ Long(position') => RZero(equity')]_vars

(* C4: on a bar that starts Long the position is closed exactly when, on   *)
(* that bar, (a) prev_short >= prev_long and cur_short < cur_long, or      *)
(* (b) price/entry_price - 1 >= take_profit_pct, or (c) price/entry_price  *)
(* - 1 <= -stop_loss_pct; the exit sets cash to shares * price, appends    *)
(* one trade with pnl = price - entry_price and leaves the position Flat;  *)
(* otherwise position and entry_price are unchanged.                       *)
C4_ExitRule ==
    [][(BarTaken /\ Long(position)) =>
        LET row == df[i]
            price == row.close
            ret == UnrealisedReturn(price, entry_price)
            a == RLe(prev_long, prev_short) /\ RLt(row.ma_s, row.ma_l)
            b == RLe(Rat(body.take_profit_pct, 100), ret)
            c == RLe(ret, Rat(-body.stop_loss_pct, 100))
            exits == Flat(position')
        IN  /\ exits <=> (a \/ b \/ c)
            /\ exits => /\ equity' = RMulInt(position, price)
                         /\ trade_results' =
                               Append(trade_results, price - entry_price)
            /\ ~exits => /\ position' = position
                          /\ entry_price' = entry_price
                          /\ trade_results' = trade_results]_vars

C4_Witness ==
    /\ AfterBar
    /\ Flat(position)
    /\ Len(trade_results) = 1
    /\ buys = 1

(* C5: at most one position transition per bar: a bar that closes the      *)
(* position started Long and ends Flat (it opens nothing), and a bar that  *)
(* opens a position records no trade.                                      *)
C5_OneTransitionPerBar ==
    [][BarTaken =>
        LET closed == Len(trade_results') > Len(trade_results)
            opened == Long(position') /\ (Flat(position) \/ closed)
        IN  /\ ~(closed /\ opened)
            /\ closed => Long(position) /\ Flat(position')
            /\ Len(trade_results') <= Len(trade_results) + 1]_vars

C5_Witness ==
    /\ AfterBar
    /\ Long(position)
    /\ Len(trade_results) = 1
    /\ buys = 2

(* C6: a position still open after the last bar is closed at the last      *)
(* bar's close: cash = shares * last close, one trade with pnl = last      *)
(* close - entry_price is appended and counted in num_trades and           *)
(* win_rate_pct; every entry of a finished run has its recorded trade.     *)
C6_ForcedLiquidation ==
    pc = "returned" =>
        /\ Len(trade_results) = buys
        /\ metrics.num_trades = buys
        /\ Long(position) =>
              /\ equity = RMulInt(position, Last(df).close)
              /\ Last(trade_results) = Last(df).close - entry_price
              /\ metrics.win_rate_pct =
                    RoundHalfEven(
                        Cardinality({k \in 1..buys : trade_results[k] > 0})
                            * 10000,
                        buys)

C6_Witness ==
    /\ pc = "returned"
    /\ Long(position)
    /\ buys = 1
    /\ Last(trade_results) > 0
    /\ metrics.num_trades = 1
    /\ metrics.win_rate_pct = 10000

(* C7: a fetched history of fewer than ma_long + 5 bars makes run_backtest *)
(* raise ValueError before any moving average is computed or any bar is    *)
(* simulated, the data is fetched once only, and the handler answers 422.  *)
C7_InsufficientData ==
    /\ fetches <= 1
    /\ (fetches = 1 /\ pc # "frame"
            /\ Len(ohlcv) < body.ma_long + MIN_EXTRA_BARS) =>
          /\ pc \in {"raised", "done"}
          /\ exc = "ValueError"
          /\ df = <<>> /\ i = 0
          /\ prev_short = NoValue /\ prev_long = NoValue
          /\ equity_curve = <<>> /\ trade_results = <<>>
          /\ ~metrics.computed
          /\ pc = "done" => http_status = HTTP_422

C7_Witness ==
    /\ pc = "done"
    /\ fetches = 1
    /\ Len(ohlcv) = body.ma_long + MIN_EXTRA_BARS - 1
    /\ http_status = HTTP_422

(* C8: for a history of at least ma_long + 5 bars and ma_short < ma_long,  *)
(* null closes included, run_backtest raises nothing: the only error it    *)
(* ever raises is the insufficient-data ValueError.                        *)
C8_OnlyInsufficientData ==
    exc # "none" =>
        /\ exc = "ValueError"
        /\ Len(ohlcv) < body.ma_long + MIN_EXTRA_BARS

(* C9: a request with ma_short >= ma_long that reaches the handler is      *)
(* answered 422 and finrl_mock.run_backtest is never called for it: no     *)
(* market data is fetched, no frame is built and no bar is simulated.      *)
C9_WindowsRejectedFirst ==
    body.ma_short >= body.ma_long =>
        /\ pc \in {"handler", "done"}
        /\ fetches = 0 /\ ohlcv = <<>> /\ df = <<>>
        /\ equity_curve = <<>> /\ buys = 0 /\ ~metrics.computed
        /\ exc = "none"
        /\ pc = "done" => http_status = HTTP_422

C9_Witness ==
    /\ pc = "done"
    /\ body.ma_short >= body.ma_long
    /\ http_status = HTTP_422

(* C10: vocabulary                                                         *)
StrictlyIncreasing(s) ==
    /\ s # <<>>
    /\ \A k \in 1..(Len(s) - 1) : s[k] < s[k + 1]

StopLossExit(t) ==
    RLe(UnrealisedReturn(t.exit, t.entry), Rat(-body.stop_loss_pct, 100))

(* C10 as stated: on a strictly increasing close series of at least        *)
(* ma_long + 5 bars run_backtest buys exactly once, never exits by         *)
(* stop-loss and reports total_return_pct > 0.                             *)
C10_OneBuyAndProfit ==
    (pc = "returned" /\ StrictlyIncreasing(ohlcv)) =>
        /\ buys = 1
        /\ \A k \in 1..Len(ledger) : ~StopLossExit(ledger[k])
        /\ metrics.total_return_pct > 0

(* C10 amended: on a strictly increasing close series of at least          *)
(* ma_long + 5 bars run_backtest never buys (the short average is above    *)
(* the long one on every bar, the first included, so no golden cross       *)
(* occurs), hence never exits by stop-loss, and reports                    *)
(* total_return_pct = 0 with no trade.                                     *)
C10_NoEntryOnRisingSeries ==
    StrictlyIncreasing(ohlcv) =>
        /\ buys = 0 /\ Flat(position) /\ ledger = <<>>
        /\ trade_results = <<>>
        /\ pc = "returned" =>
              /\ metrics.total_return_pct = 0
              /\ metrics.num_trades = 0

C10_Witness ==
    /\ pc = "returned"
    /\ StrictlyIncreasing(ohlcv)
    /\ Len(ohlcv) >= body.ma_long + MIN_EXTRA_BARS
    /\ Len(equity_curve) = MaxTail
    /\ buys = 0

(* C11: when the close of the bar right after the entry bar satisfies      *)
(* price / entry_price - 1 <= -stop_loss_pct, that bar closes the          *)
(* position: one trade with pnl < 0 is recorded, and the equity recorded   *)
(* for that bar is shares * that bar's close; a run whose only entry ended *)
(* this way returns with exactly one closed trade.                         *)
C11_StopLossNextBar ==
    [][/\ (/\ BarTaken
           /\ Long(position)
           /\ entry_bar = i - 1
           /\ RLe(UnrealisedReturn(df[i].close, entry_price),
                  Rat(-body.stop_loss_pct, 100)))
          => /\ Flat(position')
             /\ ledger' = Append(ledger, [shares |-> position,
                                          entry |-> entry_price,
                                          exit |-> df[i].close])
             /\ Len(trade_results') = Len(trade_results) + 1
             /\ Last(trade_results') < 0
             /\ Last(equity_curve') = Round2(RMulInt(position, df[i].close))
       /\ (/\ pc' = "returned"
           /\ buys' = 1
           /\ ledger' # <<>>
           /\ StopLossExit(ledger'[1]))
          => /\ Len(trade_results') = 1
             /\ trade_results'[1] < 0
             /\ metrics'.num_trades = 1
      ]_vars

C11_Witness ==
    /\ pc = "returned"
    /\ buys = 1
    /\ Len(ledger) = 1
    /\ StopLossExit(ledger[1])
    /\ entry_bar > 0
    /\ entry_bar < Len(df)
    /\ df[entry_bar + 1].close = ledger[1].exit
    /\ equity_curve[entry_bar + 1] =
          Round2(RMulInt(ledger[1].shares, ledger[1].exit))
    /\ equity_curve[entry_bar + 1] < body.initial_capital * 100
    /\ metrics.num_trades = 1

(* C12: vocabulary                                                         *)
ConstantCloses(s) ==
    /\ s # <<>>
    /\ s[1] # NaN
    /\ \A k \in 1..Len(s) : s[k] = s[1]

(* C12: on a constant close series run_backtest never opens a position:    *)
(* every point of the equity curve equals initial_capital, and the result  *)
(* has num_trades = 0, win_rate_pct = 0 and total_return_pct = 0.          *)
C12_ConstantSeries ==
    ConstantCloses(ohlcv) =>
        /\ buys = 0 /\ Flat(position) /\ ledger = <<>>
        /\ trade_results = <<>>
        /\ \A k \in 1..Len(equity_curve) :
              equity_curve[k] = body.initial_capital * 100
        /\ pc = "returned" =>
              /\ metrics.num_trades = 0
              /\ metrics.win_rate_pct = 0
              /\ metrics.total_return_pct = 0

C12_Witness ==
    /\ pc = "returned"
    /\ ConstantCloses(ohlcv)
    /\ Len(equity_curve) = MaxTail
    /\ Last(equity_curve) = body.initial_capital * 100
    /\ metrics.computed

(* C13: vocabulary: the recorded equity never falls below an earlier one   *)
NeverBelowPeak(curve) ==
    \A j, k \in 1..Len(curve) : j < k => curve[j] <= curve[k]

(* C13: every run that returns reports max_drawdown_pct <= 0, and exactly  *)
(* 0 when the recorded equity never falls below its running maximum.       *)
C13_MaxDrawdown ==
    pc = "returned" =>
        /\ metrics.max_drawdown_pct <= 0
        /\ NeverBelowPeak(equity_curve) => metrics.max_drawdown_pct = 0

C13_Witness ==
    /\ pc = "returned"
    /\ buys = 1
    /\ NeverBelowPeak(equity_curve)
    /\ Last(equity_curve) > equity_curve[1]
    /\ metrics.max_drawdown_pct = 0

(* C14: two calls with the same history and the same parameters answer    *)
(* the same: the same status, trade list, equity curve and metrics;        *)
(* nothing the first call left influences the second.                      *)
C14_Deterministic ==
    (run_no = 2 /\ pc = "done") => RunOutcome = first_run

C14_Witness ==
    /\ run_no = 2
    /\ pc = "done"
    /\ http_status = HTTP_200
    /\ Len(first_run.trade_results) = 2
    /\ trade_results = first_run.trade_results
    /\ equity_curve = first_run.equity_curve

(* C20: vocabulary: the closed trades with exit_price - entry_price > 0    *)
Wins(l) == {k \in 1..Len(l) : l[k].exit - l[k].entry > 0}

(* C20: in the result, num_trades is the number of closed trades of the    *)
(* run and win_rate_pct is 100 * (trades with exit_price - entry_price >   *)
(* 0) / num_trades to the two decimals the result carries, 0 when there is *)
(* no trade; so 0 <= win_rate_pct <= 100.                                  *)
C20_WinRate ==
    pc = "returned" =>
        /\ metrics.num_trades = Len(ledger)
        /\ metrics.win_rate_pct =
              IF Len(ledger) = 0 THEN 0
              ELSE RoundHalfEven(Cardinality(Wins(ledger)) * 10000,
                                 Len(ledger))
        /\ metrics.win_rate_pct >= 0
        /\ metrics.win_rate_pct <= 10000

C20_Witness ==
    /\ pc = "returned"
    /\ Len(ledger) = 2
    /\ Cardinality(Wins(ledger)) = 1
    /\ \E k \in 1..2 : ledger[k].exit < ledger[k].entry
    /\ metrics.num_trades = 2
    /\ metrics.win_rate_pct = 5000

(* Vocabulary of the indicator claims                                     *)

\* the valid closes compute_indicators works on
ValidCloses == ToDataframe(ind_ohlcv)

\* no bar closes below the previous one
NoFall(s) == \A k \in 1..(Len(s) - 1) : s[k] <= s[k + 1]

(* C15 as stated: with at least 15 valid closes and a smoothed average     *)
(* loss of exactly 0 (no bar closes below the previous one),               *)
(* compute_indicators raises nothing and returns rsi = 50.0.               *)
C15_ZeroLossDefault ==
    (/\ ind_pc \in {"returned", "raised"}
     /\ HasCloseColumn(ind_ohlcv)
     /\ Len(ValidCloses) >= RSI_PERIOD + 1
     /\ NoFall(ValidCloses))
        => /\ ind_pc = "returned"
           /\ ~ind.rsi.nan
           /\ ind.rsi.value = RSI_DEFAULT * 100

(* C16 as stated: the rsi compute_indicators returns is a number in        *)
(* [0, 100], and it is 50.0 whenever there are fewer than 15 valid closes. *)
C16_RsiRange ==
    ind_pc = "returned" =>
        /\ ~ind.rsi.nan
        /\ ind.rsi.value >= 0
        /\ ind.rsi.value <= 10000
        /\ Len(ValidCloses) < RSI_PERIOD + 1 =>
              ind.rsi.value = RSI_DEFAULT * 100

(* C17: vocabulary: the recursion of the claim in rational arithmetic:     *)
(* an average seeded with the first value and iterated with                *)
(* alpha = 2 / (span + 1)                                                  *)
RSub(r, s) == RAdd(r, <<-s[1], s[2]>>)

RECURSIVE Ema(_, _, _)
Ema(es, xs, span) ==
    IF Len(es) = Len(xs) THEN es
    ELSE LET k == Len(es) + 1
         IN  Ema(Append(es, IF k = 1 THEN xs[1]
                            ELSE RAdd(Rat(es[k - 1][1] * (span - 1),
                                          es[k - 1][2] * (span + 1)),
                                      Rat(xs[k][1] * 2,
                                          xs[k][2] * (span + 1)))),
                 xs, span)

\* the last value of the MACD line and of the signal line, by the recursion
LastMacdAndSignal(s) ==
    LET n == Len(s)
        xs == SubSeq([k \in 1..n |-> RInt(s[k])], 1, n)
        ema12 == Ema(<<>>, xs, SPAN_FAST)
        ema26 == Ema(<<>>, xs, SPAN_SLOW)
        line == SubSeq([k \in 1..n |-> RSub(ema12[k], ema26[k])], 1, n)
    IN  [macd |-> line[n], signal |-> Ema(<<>>, line, SPAN_SIGNAL)[n]]

\* every close but the last one is the first close
FlatButLast(s) == \A k \in 1..(Len(s) - 1) : s[k] = s[1]

RECURSIVE SumOf(_)
SumOf(s) == IF s = <<>> THEN 0 ELSE Head(s) + SumOf(Tail(s))

LastCloses(s, window) == SubSeq(s, Len(s) - window + 1, Len(s))

(* C18: _calc_ma(series, window) returns none when the series has fewer    *)
(* than window closes (window - 1 in particular), otherwise the arithmetic *)
(* mean of the last window closes; with exactly window closes that is the  *)
(* mean of all of them.                                                    *)
C18_MovingAverage ==
    ind_pc = "returned" =>
        LET s == ValidCloses
        IN  /\ Len(s) < ind_window => ind.ma = None
            /\ Len(s) >= ind_window =>
                  /\ ~ind.ma.none
                  /\ ind.ma.value =
                        Rat(SumOf(LastCloses(s, ind_window)), ind_window)
            /\ Len(s) = ind_window =>
                  ind.ma.value = Rat(SumOf(s), Len(s))

C18_Witness ==
    /\ ind_pc = "returned"
    /\ ind_window = MA_SLOW_WINDOW
    /\ Len(ValidCloses) = ind_window
    /\ ~ConstantCloses(ValidCloses)
    /\ ~ind.ma.none
    /\ ind.ma.value[2] > 1

(* C19: vocabulary: the documented defaults, rsi in hundredths             *)
DocumentedDefaults ==
    [rsi |-> [nan |-> FALSE, value |-> 5000], macd |-> "neutral",
     ma20 |-> [none |-> TRUE, value |-> 0],
     ma60 |-> [none |-> TRUE, value |-> 0]]

(* C19: compute_indicators never raises, whatever the list (empty, bars    *)
(* without a close key, null closes, too few closes): when a step inside   *)
(* fails it returns exactly rsi 50.0, macd "neutral", ma20 none and ma60   *)
(* none, and every result has the four keys.                               *)
C19_NeverRaises ==
    /\ ind_pc # "raised"
    /\ ind_pc = "returned" =>
          /\ DOMAIN ind = {"rsi", "macd", "ma20", "ma60"}
          /\ ind_caught # "none" => ind = DocumentedDefaults
          /\ ~HasCloseColumn(ind_ohlcv) => ind_caught # "none"
          /\ Len(ValidCloses) < RSI_PERIOD + 1 => ind = DocumentedDefaults

C19_Witness ==
    /\ ind_pc = "returned"
    /\ ind_caught = "KeyError"
    /\ Len(ind_ohlcv) = MACD_MIN_CLOSES
    /\ ind = DocumentedDefaults

(* C23: vocabulary: the simulation has started on the frame df             *)
Simulating == pc \in {"loop", "metrics", "respond", "returned"}

\* the short average is above the long one on every bar of the window
ShortAboveLongThroughout(w) ==
    /\ w # <<>>
    /\ \A k \in 1..Len(w) : RLt(w[k].ma_l, w[k].ma_s)

(* C23: the first bar of the simulation window never opens a position, and *)
(* a position is only opened on a bar whose predecessor in the window had  *)
(* short MA <= long MA; so when short MA > long MA on every bar of the     *)
(* window the run has no trade and every equity point is initial_capital.  *)
C23_NoEntryWithoutCross ==
    Simulating =>
        /\ entry_bar # 0 =>
              /\ entry_bar > 1
              /\ RLe(df[entry_bar - 1].ma_s, df[entry_bar - 1].ma_l)
              /\ RLt(df[entry_bar].ma_l, df[entry_bar].ma_s)
        /\ (i > 1 /\ buys = 0) => entry_bar = 0
        /\ i = 2 => (buys = 0 /\ Flat(position))
        /\ ShortAboveLongThroughout(df) =>
              /\ buys = 0 /\ Flat(position)
              /\ trade_results = <<>> /\ ledger = <<>>
              /\ \A k \in 1..Len(equity_curve) :
                    equity_curve[k] = body.initial_capital * 100
              /\ pc = "returned" => metrics.num_trades = 0

C23_Witness ==
    /\ pc = "returned"
    /\ ShortAboveLongThroughout(df)
    /\ Len(df) = MaxTail
    /\ ~StrictlyIncreasing(ohlcv)
    /\ Len(equity_curve) = Len(df)
    /\ metrics.num_trades = 0

(* C24: vocabulary: xs is a prefix of ys                                   *)
IsPrefix(xs, ys) == Len(xs) <= Len(ys) /\ SubSeq(ys, 1, Len(xs)) = xs

\* entries so far minus trades recorded so far
OpenEntries == buys - Len(trade_results)

(* C24: the position alternates Flat -> Long -> Flat: after every bar the  *)
(* entries so far minus the trades recorded so far are 1 when the position *)
(* is Long and 0 when it is Flat; no buy happens while Long, no trade is   *)
(* recorded while Flat, and the trade list only grows: earlier trades are  *)
(* never changed or removed.                                               *)
C24_Alternation ==
    [][/\ pc' = "loop" =>
             /\ Long(position') \/ Flat(position')
             /\ Long(position') => OpenEntries' = 1
             /\ Flat(position') => OpenEntries' = 0
       /\ pc' \in {"metrics", "respond", "returned"} => OpenEntries' = 0
       /\ buys' # buys =>
             /\ buys' = buys + 1
             /\ Flat(position) /\ Long(position')
             /\ trade_results' = trade_results
       /\ trade_results' # trade_results =>
             /\ Long(position)
             /\ Len(trade_results') = Len(trade_results) + 1
             /\ buys' = buys
       /\ IsPrefix(trade_results, trade_results')
       /\ IsPrefix(ledger, ledger')]_vars

C24_Witness ==
    /\ pc = "loop"
    /\ buys = 2
    /\ Len(trade_results) = 1
    /\ Long(position)
    /\ Len(ledger) = 1

(* C21: vocabulary: get_current_user has returned or raised for request r  *)
PastCurrentUser(r) ==
    req[r].pc \in {"premium", "lookup", "handler", "done"}

\* the token of request r verifies against the JWKS its _verify_jwt used
Verifies(r) ==
    LET token == req[r].credentials
    IN  /\ token.present /\ token.wellformed
        /\ token.kid \in KeysOf(req[r].jwks)
        /\ token.kid \notin UnusableKids
        /\ token.good

(* C21: with DEBUG off, get_current_user either returns the decoded        *)
(* payload of a token that verifies against the JWKS or raises HTTP 401:   *)
(* every failure (no token, malformed token, kid not in the JWKS, bad      *)
(* signature or issuer, JWKS endpoint unreachable or answering an error,   *)
(* unusable key) ends in 401 and in no other error.                        *)
C21_OnlyUnauthorized ==
    ~DEBUG =>
        \A r \in Requests :
            PastCurrentUser(r) =>
                IF req[r].user.present
                THEN Verifies(r) /\ req[r].user = Payload(req[r].credentials)
                ELSE req[r].status = HTTP_401

(* C22: vocabulary: get_premium_user has returned the user of request r    *)
PremiumReturned(r) == req[r].pc = "handler" \/ req[r].called

(* C22: the backtest runs only for Premium users: get_premium_user returns *)
(* the user only when the profiles lookup gives a first row with role      *)
(* "premium", or when DEBUG is on and the user is the injected mock user;  *)
(* otherwise it raises 403 (503 when the lookup fails); with DEBUG off a   *)
(* payload with debug = true does not bypass the lookup; run_backtest is   *)
(* never called after a 403 / 503.                                         *)
C22_PremiumOnly ==
    \A r \in Requests :
        /\ PremiumReturned(r) =>
              \/ req[r].lookup = "premium"
              \/ DEBUG /\ req[r].user = DEBUG_USER
        /\ (req[r].pc = "done" /\ req[r].user.present
                /\ ~PremiumReturned(r)) =>
              /\ req[r].lookup \in {"http_error", "no_rows", "free"}
              /\ req[r].status =
                    IF req[r].lookup = "http_error" THEN HTTP_503
                    ELSE HTTP_403
        /\ (~DEBUG /\ req[r].user.debug /\ PremiumReturned(r)) =>
              req[r].lookup = "premium"
        /\ req[r].status \in {HTTP_403, HTTP_503} => ~req[r].called

(* C25: once _fetch_jwks has stored a non-empty JWKS in the cache, every   *)
(* later call returns that value without contacting the JWKS endpoint and  *)
(* nothing replaces or clears it; so a token whose kid is absent from the  *)
(* first-fetched key set is rejected with 401 on every later request, also *)
(* after the issuer has rotated its keys.                                  *)
C25_CacheNeverReplaced ==
    Truthy(first_jwks) =>
        /\ jwks_cache = first_jwks
        /\ \A r \in Requests :
              req[r].after_store =>
                 /\ req[r].pc # "fetching"
                 /\ Truthy(req[r].jwks) => req[r].jwks = first_jwks
                 /\ (/\ ~DEBUG
                     /\ req[r].credentials.wellformed
                     /\ req[r].credentials.kid \notin KeysOf(first_jwks)
                     /\ PastCurrentUser(r)) =>
                       req[r].status = HTTP_401

====
